---- MODULE Spec2Model ----
(***************************************************************************)
(* A model of binstruct's decode engine (unmarshal.go): the record walk    *)
(* of unmarshal, the per-field pipeline of setValueToField, the delegation *)
(* resolver callFunc and setOffset, run as an explicit call stack so that  *)
(* every reader operation is one step of the machine.                      *)
(*                                                                         *)
(* Values are kept as little-endian byte sequences at the width of their   *)
(* Go type (an int32 holding 1 is <<1,0,0,0>>), strings as byte sequences, *)
(* slices, arrays and structs as sequences of values.                      *)
(***************************************************************************)
EXTENDS Integers, Sequences, FiniteSets, TLC

\* ------------------------------------------------------------ bounds
\* Largest small directive length that is tried (8 is tried besides).
MaxLen == 3
\* Extra capacity an allocating append may reserve beyond the new length.
MaxCapExtra == 1
\* Number of bytes of the longest input stream.
MaxBuf == 12

\* ------------------------------------------------------------ helpers
Fill(n, b) == [i \in 1..n |-> b]

Last(s) == s[Len(s)]

Front(s) == SubSeq(s, 1, Len(s) - 1)

Reverse(s) == [i \in 1..Len(s) |-> s[Len(s) + 1 - i]]

\* ------------------------------------------------------------ types
IntKinds == {"int", "int8", "int16", "int32", "int64"}

UintKinds == {"uint", "uint8", "uint16", "uint32", "uint64"}

FloatKinds == {"float32", "float64"}

ScalarKinds == IntKinds \cup UintKinds \cup FloatKinds \cup {"bool"}

\* The record types of the inputs: a four-level chain T0 > T1 > T2 > T3, a
\* record R with fields of several kinds, and records with one field.
ChainSids == {"T0", "T1", "T2", "T3"}

StructSids == ChainSids \cup {"R", "RN", "Pint", "Pint8", "Pint16", "Pint32", "Pint64",
      "Puint", "Puint8", "Puint16", "Puint32", "Puint64", "Pfloat32",
      "Pfloat64", "Pbool", "Pstring", "Pslice8", "Pslice16", "PsliceF",
      "Parr8", "Pmap", "Pnest", "PsliceT", "Qstring", "Qslice8", "Qarr8", "Qnest"}

\* reflect.Kind of a type, its element type, static array length.
TypeDesc(t) ==
  CASE t \in ScalarKinds -> [kind |-> t, elem |-> "", n |-> 0]
    [] t = "string" -> [kind |-> "string", elem |-> "", n |-> 0]
    [] t = "[]uint8" -> [kind |-> "slice", elem |-> "uint8", n |-> 0]
    [] t = "[]uint16" -> [kind |-> "slice", elem |-> "uint16", n |-> 0]
    [] t = "[]T3" -> [kind |-> "slice", elem |-> "T3", n |-> 0]
    [] t = "[2]uint8" -> [kind |-> "array", elem |-> "uint8", n |-> 2]
    [] t = "[2]T2" -> [kind |-> "array", elem |-> "T2", n |-> 2]
    [] t = "map" -> [kind |-> "map", elem |-> "", n |-> 0]
    [] t \in StructSids -> [kind |-> "struct", elem |-> "", n |-> 0]

Kind(t) == TypeDesc(t).kind

\* Width in bytes of a scalar kind (int and uint are 64-bit).
Width(k) ==
  CASE k \in {"int8", "uint8", "bool"} -> 1
    [] k \in {"int16", "uint16"} -> 2
    [] k \in {"int32", "uint32", "float32"} -> 4
    [] k \in {"int", "uint", "int64", "uint64", "float64"} -> 8

F(t, cs, pre) == [type |-> t, canSet |-> cs, pre |-> pre]

\* The fields of a record type in declaration order: type, exported (CanSet),
\* whether a sequence field holds an element before the call.
Fields(sid) ==
  CASE sid = "T0" -> <<F("uint8", TRUE, FALSE), F("T1", TRUE, FALSE)>>
    [] sid = "T1" -> <<F("[2]T2", TRUE, FALSE)>>
    [] sid = "T2" -> <<F("T3", TRUE, FALSE), F("uint8", TRUE, FALSE)>>
    [] sid = "T3" -> <<F("uint8", TRUE, FALSE)>>
    [] sid = "R" -> <<F("uint8", TRUE, FALSE), F("[]uint8", TRUE, FALSE),
                      F("RN", TRUE, FALSE), F("uint16", TRUE, FALSE)>>
    [] sid = "RN" -> <<F("uint8", TRUE, FALSE), F("int16", TRUE, FALSE)>>
    [] sid = "Pint" -> <<F("int", TRUE, FALSE)>>
    [] sid = "Pint8" -> <<F("int8", TRUE, FALSE)>>
    [] sid = "Pint16" -> <<F("int16", TRUE, FALSE)>>
    [] sid = "Pint32" -> <<F("int32", TRUE, FALSE)>>
    [] sid = "Pint64" -> <<F("int64", TRUE, FALSE)>>
    [] sid = "Puint" -> <<F("uint", TRUE, FALSE)>>
    [] sid = "Puint8" -> <<F("uint8", TRUE, FALSE)>>
    [] sid = "Puint16" -> <<F("uint16", TRUE, FALSE)>>
    [] sid = "Puint32" -> <<F("uint32", TRUE, FALSE)>>
    [] sid = "Puint64" -> <<F("uint64", TRUE, FALSE)>>
    [] sid = "Pfloat32" -> <<F("float32", TRUE, FALSE)>>
    [] sid = "Pfloat64" -> <<F("float64", TRUE, FALSE)>>
    [] sid = "Pbool" -> <<F("bool", TRUE, FALSE)>>
    [] sid = "Pstring" -> <<F("string", TRUE, FALSE)>>
    [] sid = "Pslice8" -> <<F("[]uint8", TRUE, FALSE)>>
    [] sid = "Pslice16" -> <<F("[]uint16", TRUE, FALSE)>>
    [] sid = "PsliceF" -> <<F("[]uint8", TRUE, TRUE)>>
    [] sid = "PsliceT" -> <<F("[]T3", TRUE, FALSE)>>
    [] sid = "Parr8" -> <<F("[2]uint8", TRUE, FALSE)>>
    [] sid = "Pmap" -> <<F("map", TRUE, FALSE)>>
    [] sid = "Pnest" -> <<F("RN", TRUE, FALSE)>>
    [] sid = "Qstring" -> <<F("string", FALSE, FALSE)>>
    [] sid = "Qslice8" -> <<F("[]uint8", FALSE, FALSE)>>
    [] sid = "Qarr8" -> <<F("[2]uint8", FALSE, FALSE)>>
    [] sid = "Qnest" -> <<F("RN", FALSE, FALSE)>>

NumField(sid) == Len(Fields(sid))

RootSids == StructSids \ {"T1", "T2", "T3", "RN"}

\* ------------------------------------------------------------ values
\* The byte every scalar and string of the target holds before the call.
PreByte == 119

RECURSIVE Zero(_)
Zero(t) ==
  LET d == TypeDesc(t) IN
  CASE d.kind \in ScalarKinds -> Fill(Width(d.kind), 0)
    [] d.kind = "string" -> <<>>
    [] d.kind = "slice" -> <<>>
    [] d.kind = "map" -> <<>>
    [] d.kind = "array" -> [i \in 1..d.n |-> Zero(d.elem)]
    [] d.kind = "struct" -> [i \in 1..NumField(t) |-> Zero(Fields(t)[i].type)]

RECURSIVE PreVal(_, _)
PreVal(t, pre) ==
  LET d == TypeDesc(t) IN
  CASE d.kind \in ScalarKinds -> Fill(Width(d.kind), PreByte)
    [] d.kind = "string" -> <<PreByte>>
    [] d.kind = "slice" -> IF pre THEN <<PreVal(d.elem, FALSE)>> ELSE <<>>
    [] d.kind = "map" -> <<>>
    [] d.kind = "array" -> [i \in 1..d.n |-> PreVal(d.elem, FALSE)]
    [] d.kind = "struct" ->
         [i \in 1..NumField(t) |-> PreVal(Fields(t)[i].type, Fields(t)[i].pre)]

RECURSIVE GetAt(_, _)
GetAt(v, path) ==
  IF path = <<>> THEN v ELSE GetAt(v[Head(path)], Tail(path))

RECURSIVE SetAt(_, _, _)
SetAt(v, path, x) ==
  IF path = <<>> THEN x
  ELSE [v EXCEPT ![Head(path)] = SetAt(v[Head(path)], Tail(path), x)]

\* A reflect.Value that refers to storage: base 0 is the target record, base
\* j > 0 is the j-th live temporary made by reflect.New.
Loc(b, p) == [base |-> b, path |-> p]

NoLoc == Loc(-1, <<>>)

\* ------------------------------------------------------------ directives
\* fieldReadData as setValueToField receives it. isNil is the nil pointer;
\* hasLen is Length != nil; elem names the ElemFieldData.
FD(ign, hasLen, len, fn, offs, elem) ==
  [isNil |-> FALSE, Ignore |-> ign, hasLen |-> hasLen, Length |-> len,
   FuncName |-> fn, Offsets |-> offs, elem |-> elem]

EmptyFD == FD(FALSE, FALSE, 0, "", <<>>, "nil")

NilFD == [EmptyFD EXCEPT !.isNil = TRUE]

\* io.SeekStart, io.SeekCurrent, io.SeekEnd.
SeekStart == "start"

SeekCurrent == "current"

SeekEnd == "end"

Off(o, w) == [Offset |-> o, Whence |-> w]

\* The element directives tried: none, an empty one, ignore, a length, a
\* seek, a delegation.
ElemNames == {"nil", "plain", "ign", "len1", "len2", "seek", "func"}

ElemFD(name) ==
  CASE name = "nil" -> NilFD
    [] name = "plain" -> EmptyFD
    [] name = "ign" -> FD(TRUE, FALSE, 0, "", <<>>, "nil")
    [] name = "len1" -> FD(FALSE, TRUE, 1, "", <<>>, "nil")
    [] name = "len2" -> FD(FALSE, TRUE, 2, "", <<>>, "nil")
    [] name = "seek" -> FD(FALSE, FALSE, 0, "", <<Off(1, SeekCurrent)>>, "nil")
    [] name = "func" -> FD(FALSE, FALSE, 0, "F", <<>>, "nil")

\* Length values tried; NoLen stands for an absent length.
Lens == (-1..MaxLen) \cup {4, 8}

OffsetChoices ==
  {<<>>, <<Off(10, SeekStart)>>, <<Off(1, SeekCurrent), Off(-2, SeekEnd)>>,
   <<Off(2, SeekStart), Off(-3, SeekCurrent), Off(1, SeekStart)>>}

ScalarDirs ==
  {FD(ign, FALSE, 0, fn, offs, "nil") :
     ign \in BOOLEAN, fn \in {"", "F"}, offs \in OffsetChoices}
  \cup {FD(FALSE, TRUE, l, "", offs, "nil") :
          l \in Lens, offs \in {<<>>, <<Off(10, SeekStart)>>}}

SeqDirs ==
  {FD(ign, FALSE, 0, fn, offs, "nil") :
     ign \in BOOLEAN, fn \in {"", "F"}, offs \in {<<>>, <<Off(10, SeekStart)>>}}
  \cup {FD(FALSE, TRUE, l, "", <<>>, e) : l \in (-1..MaxLen), e \in ElemNames}
  \cup {FD(FALSE, TRUE, 2, "", <<Off(1, SeekCurrent)>>, "nil")}

StructDirs ==
  {EmptyFD, FD(TRUE, FALSE, 0, "", <<Off(10, SeekStart)>>, "nil"),
   FD(FALSE, FALSE, 0, "", <<Off(1, SeekCurrent)>>, "nil"),
   FD(FALSE, FALSE, 0, "F", <<>>, "nil")}

\* The directives the directive source may hand back for field i of a record
\* of type sid (parseReadDataFromTags resolves them at run time).
DirChoices(sid, i) ==
  LET t == Fields(sid)[i].type
      k == Kind(t) IN
  CASE sid = "T0" /\ i = 1 -> {EmptyFD, FD(FALSE, FALSE, 0, "F", <<>>, "nil")}
    [] sid = "T0" /\ i = 2 -> {EmptyFD}
    [] sid = "T1" -> {EmptyFD, FD(FALSE, TRUE, 1, "", <<>>, "nil")}
    [] sid = "T2" /\ i = 1 -> {EmptyFD}
    [] sid = "T2" /\ i = 2 -> {FD(FALSE, FALSE, 0, "F", <<>>, "nil")}
    [] sid = "T3" -> {FD(FALSE, FALSE, 0, "F", <<>>, "nil")}
    [] sid = "R" /\ i = 1 -> {EmptyFD, FD(TRUE, FALSE, 0, "", <<>>, "nil")}
    [] sid = "R" /\ i = 2 ->
         {FD(FALSE, TRUE, l, "", <<>>, "nil") : l \in {0, 2}}
         \cup {FD(FALSE, FALSE, 0, "", <<>>, "nil"),
               FD(TRUE, TRUE, 2, "", <<Off(10, SeekStart)>>, "nil")}
    [] sid = "R" /\ i = 3 -> {EmptyFD, FD(TRUE, FALSE, 0, "", <<>>, "nil")}
    [] sid = "R" /\ i = 4 ->
         {EmptyFD, FD(FALSE, FALSE, 0, "", <<Off(10, SeekStart)>>, "nil"),
          FD(FALSE, FALSE, 0, "", <<Off(-1, SeekStart)>>, "nil")}
    [] sid = "RN" /\ i = 1 -> {EmptyFD, FD(FALSE, FALSE, 0, "F", <<>>, "nil")}
    [] sid = "RN" /\ i = 2 ->
         {EmptyFD, FD(FALSE, TRUE, 1, "", <<>>, "nil"),
          FD(FALSE, FALSE, 0, "", <<Off(1, SeekCurrent), Off(-1, SeekStart)>>, "nil")}
    [] OTHER ->
         IF k \in {"slice", "array"} THEN SeqDirs
         ELSE IF k = "struct" THEN StructDirs
         ELSE ScalarDirs

\* ------------------------------------------------------------ reader
\* The bytes of the input stream: byte p (from 0) is p + 1, except byte 10,
\* which has its top bit set.
Stream == [p \in 1..MaxBuf |-> IF p = 11 THEN 139 ELSE p]

BufLens == {1, 3, MaxBuf}

\* Reader.Seek: the position it asks for, or -1 when the reader refuses it.
SeekTarget(p, n, o) ==
  LET base == CASE o.Whence = SeekStart -> 0
                [] o.Whence = SeekCurrent -> p
                [] o.Whence = SeekEnd -> n
  IN IF base < 0 \/ base + o.Offset < 0 THEN -1 ELSE base + o.Offset

\* Whether a read of w bytes at position p of a stream of n bytes succeeds.
CanRead(p, n, w) == w >= 0 /\ p + w <= n

\* The w bytes at position p.
BytesAt(b, p, w) == [i \in 1..w |-> IF p + i <= Len(b) THEN b[p + i] ELSE 0]

\* int64(v) of a signed value read at some width: sign extension.
SignExtend(bs) ==
  bs \o Fill(8 - Len(bs), IF Len(bs) > 0 /\ Last(bs) >= 128 THEN 255 ELSE 0)

\* uint64(v): zero extension.
ZeroExtend(bs) == bs \o Fill(8 - Len(bs), 0)

\* reflect's SetInt / SetUint / SetFloat on a field of kind k keeps the low
\* bytes that fit the kind.
Truncate(bs, k) == SubSeq(bs, 1, Width(k))

\* ------------------------------------------------------------ routines
\* The shape of the method F of a record type: what it takes, what it
\* returns, the type of a returned value.
Shape(in, out, vt) == [in |-> in, out |-> out, vt |-> vt]

NoMethod == Shape("none", "", "")

MethodShapes ==
  {NoMethod, Shape("reader", "err", ""), Shape("reader", "valerr", "uint8"),
   Shape("reader", "valerr", "uint16"), Shape("other", "err", "")}

\* The method F of the records with one field and of R and RN.
StaticMethod(sid) ==
  CASE sid \in {"Puint8", "Pslice8", "RN"} -> Shape("reader", "valerr", "uint8")
    [] sid \in {"Pint8", "Pstring", "Parr8", "Qstring"} -> Shape("reader", "err", "")
    [] sid \in {"Puint16", "Pint16", "Pnest"} -> Shape("reader", "valerr", "uint16")
    [] sid \in {"Pint", "Pbool", "Pslice16"} -> Shape("reader", "valerr", "string")
    [] sid \in {"Puint", "Pfloat32"} -> Shape("other", "err", "")
    [] sid \in {"Puint32", "Qslice8"} -> Shape("reader", "val", "uint8")
    [] OTHER -> NoMethod

\* Bytes the body of a routine reads from the reader it is given.
RoutineReads(m) == IF m.out = "valerr" /\ m.vt = "uint16" THEN 2 ELSE 1

\* ------------------------------------------------------------ state
VARIABLES
  status,    \* "idle", "running", "ok", "error" or "panic"
  arg,       \* what Unmarshal is given
  root,      \* the record type of the target
  rec,       \* the target record
  tmps,      \* the live temporaries of reflect.New, innermost last
  buf,       \* the reader's bytes
  pos,       \* the reader's cursor
  ops,       \* the reader operations issued so far
  stack,     \* the call stack of unmarshal and setValueToField
  ret,       \* the value a call has just returned: "" none, "nil", or an error
  heap,      \* the backing arrays of the parentStructValues slices
  methods,   \* the method F of each record type of the chain
  capExtra,  \* the spare capacity an allocating append reserves
  last,      \* the setValueToField call that returned last
  lastCall   \* the callFunc call that returned last

vars == <<status, arg, root, rec, tmps, buf, pos, ops, stack, ret, heap,
          methods, capExtra, last, lastCall>>

Args == {"nil", "nonptr", "nilptr", "ptrNonStruct", "ptr"}

NilSlice == [arr |-> 0, len |-> 0, cap |-> 0]

Load(loc) ==
  IF loc.base = 0 THEN GetAt(rec, loc.path)
  ELSE IF loc.base \in 1..Len(tmps) THEN GetAt(tmps[loc.base].v, loc.path)
  ELSE <<>>

Frame(fn, pc, sv, sid, i, fv, ft, cs, fd, par) ==
  [fn |-> fn, pc |-> pc, sv |-> sv, sid |-> sid, i |-> i, fv |-> fv, ft |-> ft,
   cs |-> cs, fd |-> fd, par |-> par, k |-> 0, tried |-> <<>>,
   pos0 |-> pos, ops0 |-> Len(ops), val0 |-> Load(fv)]

NoFrame == [fn |-> "", pc |-> "", sv |-> NoLoc, sid |-> "", i |-> 0, fv |-> NoLoc,
            ft |-> "", cs |-> FALSE, fd |-> EmptyFD, par |-> NilSlice, k |-> 0,
            tried |-> <<>>, pos0 |-> 0, ops0 |-> 0, val0 |-> <<>>]

NoCall == [cand |-> NoLoc, m |-> NoMethod, ft |-> "", invoked |-> FALSE,
           ok |-> FALSE, err |-> FALSE, pos0 |-> 0, pos1 |-> 0, ops0 |-> 0,
           ops1 |-> 0]

NoLast == [f |-> NoFrame, ret |-> "", own |-> FALSE, pos1 |-> 0, ops1 |-> 0,
           val1 |-> <<>>, order |-> <<>>]

Top == stack[Len(stack)]

StoreRec(r, loc, x) == IF loc.base = 0 THEN SetAt(r, loc.path, x) ELSE r

StoreTmps(ts, loc, x) ==
  IF loc.base > 0 /\ loc.base <= Len(ts)
  THEN [ts EXCEPT ![loc.base].v = SetAt(@, loc.path, x)]
  ELSE ts

\* The elements of a parentStructValues slice, read through its header.
SliceElems(h) == IF h.arr = 0 THEN <<>> ELSE SubSeq(heap[h.arr], 1, h.len)

\* The records that enclose the record a frame of the stack works on,
\* outermost first, as the nesting of the calls gives them: each with its
\* location and its type.
Enclosing(stk) ==
  LET RECURSIVE svs(_)
      svs(j) == IF j = 0 THEN <<>>
                ELSE IF stk[j].fn = "unmarshal"
                THEN Append(svs(j - 1), [loc |-> stk[j].sv, sid |-> stk[j].sid])
                ELSE svs(j - 1)
      all == svs(Len(stk))
  IN IF all = <<>> THEN <<>> ELSE Front(all)

RECURSIVE TypeAtPath(_, _)
TypeAtPath(t, path) ==
  IF path = <<>> THEN t
  ELSE IF Kind(t) = "struct" THEN TypeAtPath(Fields(t)[Head(path)].type, Tail(path))
  ELSE TypeAtPath(TypeDesc(t).elem, Tail(path))

\* The static type of the value a location refers to.
TypeAt(loc) ==
  IF loc.base = 0 THEN TypeAtPath(root, loc.path)
  ELSE TypeAtPath(tmps[loc.base].t, loc.path)

\* MethodByName(funcName) on a pointer to a record of type sid.
Method(sid) == IF sid \in ChainSids THEN methods[sid] ELSE StaticMethod(sid)

ChainShapes == MethodShapes \ {Shape("other", "err", "")}

Init ==
  /\ status = "idle"
  /\ arg \in Args
  /\ root \in (IF arg = "ptr" THEN RootSids ELSE {"Puint8"})
  /\ rec = PreVal(root, FALSE)
  /\ tmps = <<>>
  /\ buf \in {SubSeq(Stream, 1, n) : n \in (IF root = "T0" THEN {3, MaxBuf} ELSE BufLens)}
  /\ pos \in (IF root = "T0" THEN {0} ELSE {0, 1})
  /\ ops = <<>>
  /\ stack = <<>>
  /\ ret = ""
  /\ heap = <<>>
  /\ methods \in (IF root = "T0" THEN [ChainSids -> ChainShapes]
                  ELSE {[s \in ChainSids |-> NoMethod]})
  /\ capExtra \in (IF root \in {"T0", "R"} THEN 0..MaxCapExtra ELSE {0})
  /\ last = NoLast
  /\ lastCall = NoCall

\* ------------------------------------------------------------ steps
LoadIn(r, ts, loc) ==
  IF loc.base = 0 THEN GetAt(r, loc.path)
  ELSE IF loc.base <= Len(ts) THEN GetAt(ts[loc.base].v, loc.path)
  ELSE <<>>

SetTop(f) == [stack EXCEPT ![Len(stack)] = f]

Op(name, by, at, n, ok) == [op |-> name, by |-> by, at |-> at, n |-> n, ok |-> ok]

\* A return of the running call with result e, the target, temporaries,
\* cursor and log being r2, t2, p2, o2 when it returns. last.own tells a
\* result of the call's own from one handed up from a nested call.
ReturnAs(f, e, r2, t2, p2, o2) ==
  /\ stack' = Front(stack)
  /\ ret' = e
  /\ status' = IF Len(stack) > 1 THEN status
               ELSE IF e = "nil" THEN "ok" ELSE "error"
  /\ rec' = r2
  /\ tmps' = t2
  /\ pos' = p2
  /\ ops' = o2
  /\ last' = IF f.fn = "set"
             THEN [f |-> f, ret |-> e, own |-> (ret = ""), pos1 |-> p2,
                   ops1 |-> Len(o2),
                   val1 |-> LoadIn(r2, t2, f.fv),
                   order |-> <<[loc |-> f.sv, sid |-> f.sid]>>
                             \o Reverse(Enclosing(stack))]
             ELSE last

Return(e, r2, t2, p2, o2) == ReturnAs(Top, e, r2, t2, p2, o2)

\* A run-time panic of reflect: the decode ends there.
Panic ==
  /\ status' = "panic"
  /\ ret' = "panic"
  /\ UNCHANGED <<rec, tmps, pos, ops, stack, last>>

\* unmarshal's check of its argument: the error it returns, "panic" when
\* NumField is called on a value that is no struct, "" when it goes on.
UnmarshalCheck(a) ==
  CASE a \in {"nil", "nonptr", "nilptr"} -> "InvalidUnmarshalError"
    [] a = "ptrNonStruct" -> "panic"
    [] OTHER -> ""

\* Unmarshal(v): the top-level call.
Unmarshal ==
  /\ status = "idle"
  /\ LET c == UnmarshalCheck(arg) IN
     /\ status' = IF c = "" THEN "running" ELSE IF c = "panic" THEN "panic" ELSE "error"
     /\ ret' = c
     /\ stack' = IF c = ""
                 THEN <<Frame("unmarshal", "loop", Loc(0, <<>>), root, 1, NoLoc, "",
                              FALSE, EmptyFD, NilSlice)>>
                 ELSE <<>>
  /\ UNCHANGED <<arg, root, rec, tmps, buf, pos, ops, heap, methods, capExtra, last,
                 lastCall>>

\* One turn of unmarshal's loop over the fields: the directive of field i is
\* resolved and setValueToField is called; after the last field, return nil.
UnmarshalLoop ==
  /\ status = "running" /\ Top.fn = "unmarshal" /\ Top.pc = "loop"
  /\ IF Top.i > NumField(Top.sid)
     THEN /\ Return("nil", rec, tmps, pos, ops)
          /\ UNCHANGED <<arg, root, buf, heap, methods, capExtra, lastCall>>
     ELSE \E d \in DirChoices(Top.sid, Top.i) :
            LET fld == Fields(Top.sid)[Top.i]
                fv == Loc(Top.sv.base, Append(Top.sv.path, Top.i)) IN
            /\ stack' = Append(SetTop([Top EXCEPT !.pc = "await"]),
                               Frame("set", "enter", Top.sv, Top.sid, 0, fv, fld.type,
                                     fld.canSet, d, Top.par))
            /\ UNCHANGED <<status, arg, root, rec, tmps, buf, pos, ops, ret, heap,
                           methods, capExtra, last, lastCall>>

\* parseTag or parseReadDataFromTags fails for field i.
UnmarshalParseError ==
  /\ status = "running" /\ Top.fn = "unmarshal" /\ Top.pc = "loop"
  /\ Top.i <= NumField(Top.sid)
  /\ \E e \in {"parseTag", "parseReadData"} : Return(e, rec, tmps, pos, ops)
  /\ UNCHANGED <<arg, root, buf, heap, methods, capExtra, lastCall>>

\* The loop going on to the next field whatever setValueToField returned.
UnmarshalFieldDoneNoCheck ==
  /\ status = "running" /\ Top.fn = "unmarshal" /\ Top.pc = "await" /\ ret # ""
  /\ stack' = SetTop([Top EXCEPT !.pc = "loop", !.i = @ + 1])
  /\ ret' = ""
  /\ UNCHANGED <<status, rec, tmps, pos, ops, last>>
  /\ UNCHANGED <<arg, root, buf, heap, methods, capExtra, lastCall>>

\* unmarshal after setValueToField has returned: wrap its error, or go on.
UnmarshalFieldDone ==
  /\ status = "running" /\ Top.fn = "unmarshal" /\ Top.pc = "await" /\ ret # ""
  /\ IF ret # "nil"
     THEN Return(ret, rec, tmps, pos, ops)
     ELSE /\ stack' = SetTop([Top EXCEPT !.pc = "loop", !.i = @ + 1])
          /\ ret' = ""
          /\ UNCHANGED <<status, rec, tmps, pos, ops, last>>
  /\ UNCHANGED <<arg, root, buf, heap, methods, capExtra, lastCall>>

\* Where setValueToField goes once offset k - 1 is applied.
AfterSeek(fd, k) ==
  IF k <= Len(fd.Offsets) THEN "seek"
  ELSE IF fd.FuncName # "" THEN "func" ELSE "dispatch"

\* The ignore check made only once the offsets are applied.
SetValueEnterSeekFirst ==
  /\ status = "running" /\ Top.fn = "set" /\ Top.pc = "enter"
  /\ LET fd1 == IF Top.fd.isNil THEN EmptyFD ELSE Top.fd IN
     IF fd1.Ignore /\ fd1.Offsets = <<>>
     THEN Return("nil", rec, tmps, pos, ops)
     ELSE /\ stack' = SetTop([Top EXCEPT !.fd = fd1, !.pc = AfterSeek(fd1, 1),
                                         !.k = IF fd1.Offsets = <<>> THEN 0 ELSE 1])
          /\ UNCHANGED <<status, rec, tmps, pos, ops, ret, last>>
  /\ UNCHANGED <<arg, root, buf, heap, methods, capExtra, lastCall>>

\* The head of setValueToField: a nil directive is an empty one, an ignored
\* field returns at once.
SetValueEnter ==
  /\ status = "running" /\ Top.fn = "set" /\ Top.pc = "enter"
  /\ LET fd1 == IF Top.fd.isNil THEN EmptyFD ELSE Top.fd IN
     IF fd1.Ignore
     THEN Return("nil", rec, tmps, pos, ops)
     ELSE /\ stack' = SetTop([Top EXCEPT !.fd = fd1, !.pc = AfterSeek(fd1, 1),
                                         !.k = IF fd1.Offsets = <<>> THEN 0 ELSE 1])
          /\ UNCHANGED <<status, rec, tmps, pos, ops, ret, last>>
  /\ UNCHANGED <<arg, root, buf, heap, methods, capExtra, lastCall>>

\* The offsets applied from the last to the first.
SetOffsetReversed ==
  /\ status = "running" /\ Top.fn = "set" /\ Top.pc = "seek"
  /\ LET o == Top.fd.Offsets[Len(Top.fd.Offsets) + 1 - Top.k]
         t == SeekTarget(pos, Len(buf), o)
         o2 == Append(ops, Op("Seek", "engine", pos, t, t >= 0))
         pc2 == AfterSeek(Top.fd, Top.k + 1) IN
     IF t < 0
     THEN Return("seek", rec, tmps, pos, o2)
     ELSE /\ pos' = t
          /\ ops' = o2
          /\ stack' = SetTop([Top EXCEPT !.pc = pc2,
                                         !.k = IF pc2 = "seek" THEN @ + 1 ELSE 0])
          /\ UNCHANGED <<status, rec, tmps, ret, last>>
  /\ UNCHANGED <<arg, root, buf, heap, methods, capExtra, lastCall>>

\* setOffset: one Seek of the field's offsets.
SetOffset ==
  /\ status = "running" /\ Top.fn = "set" /\ Top.pc = "seek"
  /\ LET o == Top.fd.Offsets[Top.k]
         t == SeekTarget(pos, Len(buf), o)
         o2 == Append(ops, Op("Seek", "engine", pos, t, t >= 0))
         pc2 == AfterSeek(Top.fd, Top.k + 1) IN
     IF t < 0
     THEN Return("seek", rec, tmps, pos, o2)
     ELSE /\ pos' = t
          /\ ops' = o2
          /\ stack' = SetTop([Top EXCEPT !.pc = pc2,
                                         !.k = IF pc2 = "seek" THEN @ + 1 ELSE 0])
          /\ UNCHANGED <<status, rec, tmps, ret, last>>
  /\ UNCHANGED <<arg, root, buf, heap, methods, capExtra, lastCall>>

\* The parents asked from the outermost inwards.
CandidateAtOutermostFirst(f, k) ==
  IF k = 0 THEN f.sv ELSE SliceElems(f.par)[k]

\* The k-th record the resolver asks: the record being decoded first, then
\* parentStructValues from its last element down to its first.
CandidateAt(f, k) ==
  IF k = 0 THEN f.sv ELSE SliceElems(f.par)[f.par.len - k + 1]

\* callFunc on a record whose method F is m, for a field of type ft, the
\* cursor at p in bytes b: whether the method is called, what callFunc
\* returns (ok, err), the cursor afterwards, the value to set.
CallFunc(m, ft, p, b) ==
  LET invoked == m.in = "reader"
      n == RoutineReads(m)
      readOk == CanRead(p, Len(b), n)
      ok == invoked /\ (m.out = "err" \/ (m.out = "valerr" /\ m.vt = ft))
  IN [invoked |-> invoked, n |-> n, readOk |-> readOk, ok |-> ok,
      err |-> ok /\ ~readOk,
      pos |-> IF invoked /\ readOk THEN p + n ELSE p,
      set |-> ok /\ readOk /\ m.out = "valerr",
      val |-> BytesAt(b, p, n)]

\* The delegation of setValueToField: callFunc on the next candidate.
CallCustomFunc ==
  /\ status = "running" /\ Top.fn = "set" /\ Top.pc = "func"
  /\ LET c == CandidateAt(Top, Top.k)
         m == Method(TypeAt(c))
         r == CallFunc(m, Top.ft, pos, buf)
         o2 == IF r.invoked
               THEN Append(ops, Op("Read", "routine", pos, r.n, r.readOk))
               ELSE ops
         f2 == [Top EXCEPT !.tried = Append(@, [loc |-> c, sid |-> TypeAt(c)])]
         w == r.set /\ Top.cs IN
     /\ lastCall' = [cand |-> c, m |-> m, ft |-> Top.ft, invoked |-> r.invoked,
                     ok |-> r.ok, err |-> r.err, pos0 |-> pos, pos1 |-> r.pos,
                     ops0 |-> Len(ops), ops1 |-> Len(o2)]
     /\ IF r.err THEN ReturnAs(f2, "custom func", rec, tmps, r.pos, o2)
        ELSE IF r.ok
        THEN ReturnAs(f2, "nil",
                      IF w THEN StoreRec(rec, Top.fv, r.val) ELSE rec,
                      IF w THEN StoreTmps(tmps, Top.fv, r.val) ELSE tmps,
                      r.pos, o2)
        ELSE IF Top.k < Top.par.len
        THEN /\ stack' = SetTop([f2 EXCEPT !.k = @ + 1])
             /\ pos' = r.pos
             /\ ops' = o2
             /\ UNCHANGED <<status, rec, tmps, ret, last>>
        ELSE ReturnAs(f2, "no method", rec, tmps, r.pos, o2)
  /\ UNCHANGED <<arg, root, buf, heap, methods, capExtra>>

\* A read of w bytes by the engine that yields v for the field.
DoRead(name, w, v) ==
  IF CanRead(pos, Len(buf), w)
  THEN Return("nil",
              IF Top.cs THEN StoreRec(rec, Top.fv, v) ELSE rec,
              IF Top.cs THEN StoreTmps(tmps, Top.fv, v) ELSE tmps,
              pos + w, Append(ops, Op(name, "engine", pos, w, TRUE)))
  ELSE Return("EOF", rec, tmps, pos, Append(ops, Op(name, "engine", pos, w, FALSE)))

\* The default branch reading 64 bits.
IntWidthDefault64(fd, k) ==
  IF (fd.hasLen /\ fd.Length = 1) \/ k = "int8" THEN 1
  ELSE IF (fd.hasLen /\ fd.Length = 2) \/ k = "int16" THEN 2
  ELSE IF (fd.hasLen /\ fd.Length = 4) \/ k = "int32" THEN 4
  ELSE 8

\* The width the switch of the signed case reads, 0 for its default branch.
IntWidth(fd, k) ==
  IF (fd.hasLen /\ fd.Length = 1) \/ k = "int8" THEN 1
  ELSE IF (fd.hasLen /\ fd.Length = 2) \/ k = "int16" THEN 2
  ELSE IF (fd.hasLen /\ fd.Length = 4) \/ k = "int32" THEN 4
  ELSE IF (fd.hasLen /\ fd.Length = 8) \/ k = "int64" THEN 8
  ELSE 0

\* The width the switch of the unsigned case reads, 0 for its default branch.
UintWidth(fd, k) ==
  IF (fd.hasLen /\ fd.Length = 1) \/ k = "uint8" THEN 1
  ELSE IF (fd.hasLen /\ fd.Length = 2) \/ k = "uint16" THEN 2
  ELSE IF (fd.hasLen /\ fd.Length = 4) \/ k = "uint32" THEN 4
  ELSE IF (fd.hasLen /\ fd.Length = 8) \/ k = "uint64" THEN 8
  ELSE 0

AtDispatch(kinds) ==
  /\ status = "running" /\ Top.fn = "set" /\ Top.pc = "dispatch"
  /\ Kind(Top.ft) \in kinds

\* case reflect.Int, Int8, Int16, Int32, Int64.
SetInt ==
  /\ AtDispatch(IntKinds)
  /\ LET w == IntWidth(Top.fd, Kind(Top.ft)) IN
     IF w = 0 THEN Return("need len", rec, tmps, pos, ops)
     ELSE DoRead("ReadInt", w, Truncate(SignExtend(BytesAt(buf, pos, w)), Kind(Top.ft)))
  /\ UNCHANGED <<arg, root, buf, heap, methods, capExtra, lastCall>>

\* case reflect.Uint, Uint8, Uint16, Uint32, Uint64.
SetUint ==
  /\ AtDispatch(UintKinds)
  /\ LET w == UintWidth(Top.fd, Kind(Top.ft)) IN
     IF w = 0 THEN Return("need len", rec, tmps, pos, ops)
     ELSE DoRead("ReadUint", w, Truncate(ZeroExtend(BytesAt(buf, pos, w)), Kind(Top.ft)))
  /\ UNCHANGED <<arg, root, buf, heap, methods, capExtra, lastCall>>

\* case reflect.Float32, Float64: the bits read are the bits stored.
SetFloat ==
  /\ AtDispatch(FloatKinds)
  /\ LET w == Width(Kind(Top.ft)) IN DoRead("ReadFloat", w, BytesAt(buf, pos, w))
  /\ UNCHANGED <<arg, root, buf, heap, methods, capExtra, lastCall>>

\* case reflect.Bool.
SetBool ==
  /\ AtDispatch({"bool"})
  /\ DoRead("ReadBool", 1, <<IF BytesAt(buf, pos, 1)[1] # 0 THEN 1 ELSE 0>>)
  /\ UNCHANGED <<arg, root, buf, heap, methods, capExtra, lastCall>>

\* case reflect.String.
SetString ==
  /\ AtDispatch({"string"})
  /\ IF ~Top.fd.hasLen THEN Return("need len", rec, tmps, pos, ops)
     ELSE DoRead("ReadBytes", Top.fd.Length, BytesAt(buf, pos, Top.fd.Length))
  /\ UNCHANGED <<arg, root, buf, heap, methods, capExtra, lastCall>>

\* default: the kind is not supported.
Unsupported ==
  /\ AtDispatch({"map"})
  /\ Return("not supported", rec, tmps, pos, ops)
  /\ UNCHANGED <<arg, root, buf, heap, methods, capExtra, lastCall>>

\* reflect.New of the element type and the call of setValueToField on it,
\* with the element directive and the same record and parents.
PushElem ==
  LET e == TypeDesc(Top.ft).elem
      fr == Frame("set", "enter", Top.sv, Top.sid, 0, Loc(Len(tmps) + 1, <<>>), e,
                  TRUE, ElemFD(Top.fd.elem), Top.par) IN
  /\ tmps' = Append(tmps, [t |-> e, v |-> Zero(e)])
  /\ stack' = Append(SetTop([Top EXCEPT !.pc = "await"]),
                     [fr EXCEPT !.val0 = Zero(e)])
  /\ UNCHANGED <<status, rec, pos, ops, ret, last>>

AtLoop(kind) ==
  /\ status = "running" /\ Top.fn = "set" /\ Top.pc \in {"dispatch", "loop"}
  /\ Kind(Top.ft) = kind

AtAwait(kind) ==
  /\ status = "running" /\ Top.fn = "set" /\ Top.pc = "await"
  /\ Kind(Top.ft) = kind /\ ret # ""

\* The loop running while i <= Length.
SliceLoopOneMore ==
  /\ AtLoop("slice")
  /\ IF ~Top.fd.hasLen THEN Return("need len", rec, tmps, pos, ops)
     ELSE IF Top.i <= Top.fd.Length THEN PushElem
     ELSE Return("nil", rec, tmps, pos, ops)
  /\ UNCHANGED <<arg, root, buf, heap, methods, capExtra, lastCall>>

\* case reflect.Slice: the length check and one turn of the loop.
SliceLoop ==
  /\ AtLoop("slice")
  /\ IF ~Top.fd.hasLen THEN Return("need len", rec, tmps, pos, ops)
     ELSE IF Top.i < Top.fd.Length THEN PushElem
     ELSE Return("nil", rec, tmps, pos, ops)
  /\ UNCHANGED <<arg, root, buf, heap, methods, capExtra, lastCall>>

\* case reflect.Slice after the element is decoded: return its error, or
\* append it when the field can be set.
SliceElemDone ==
  /\ AtAwait("slice")
  /\ LET tv == Last(tmps).v
         t2 == Front(tmps)
         nv == Append(Load(Top.fv), tv) IN
     IF ret # "nil" THEN Return(ret, rec, t2, pos, ops)
     ELSE /\ rec' = IF Top.cs THEN StoreRec(rec, Top.fv, nv) ELSE rec
          /\ tmps' = IF Top.cs THEN StoreTmps(t2, Top.fv, nv) ELSE t2
          /\ stack' = SetTop([Top EXCEPT !.pc = "loop", !.i = @ + 1])
          /\ ret' = ""
          /\ UNCHANGED <<status, pos, ops, last>>
  /\ UNCHANGED <<arg, root, buf, heap, methods, capExtra, lastCall>>

\* The number of elements the array case decodes.
ArrLen(fd, t) ==
  LET l == IF fd.hasLen THEN fd.Length ELSE 0 IN
  IF l = 0 THEN TypeDesc(t).n ELSE l

\* case reflect.Array: one turn of the loop.
ArrayLoop ==
  /\ AtLoop("array")
  /\ IF Top.i < ArrLen(Top.fd, Top.ft) THEN PushElem
     ELSE Return("nil", rec, tmps, pos, ops)
  /\ UNCHANGED <<arg, root, buf, heap, methods, capExtra, lastCall>>

\* case reflect.Array after the element is decoded: return its error, or
\* assign it at index i when the field can be set; Index panics when i is
\* not below the array's length.
ArrayElemDone ==
  /\ AtAwait("array")
  /\ LET tv == Last(tmps).v
         t2 == Front(tmps)
         n == TypeDesc(Top.ft).n
         nv == [Load(Top.fv) EXCEPT ![Top.i + 1] = tv] IN
     IF ret # "nil" THEN Return(ret, rec, t2, pos, ops)
     ELSE IF Top.cs /\ Top.i >= n THEN Panic
     ELSE /\ rec' = IF Top.cs THEN StoreRec(rec, Top.fv, nv) ELSE rec
          /\ tmps' = IF Top.cs THEN StoreTmps(t2, Top.fv, nv) ELSE t2
          /\ stack' = SetTop([Top EXCEPT !.pc = "loop", !.i = @ + 1])
          /\ ret' = ""
          /\ UNCHANGED <<status, pos, ops, last>>
  /\ UNCHANGED <<arg, root, buf, heap, methods, capExtra, lastCall>>

\* Go's append(h, x) on a slice of header h: in place when the capacity
\* allows, else in a new backing array. The new header and the new heap.
GoAppend(h, x) ==
  IF h.len < h.cap
  THEN [h |-> [h EXCEPT !.len = @ + 1],
        heap |-> [heap EXCEPT ![h.arr][h.len + 1] = x]]
  ELSE LET c == h.len + 1 + capExtra IN
       [h |-> [arr |-> Len(heap) + 1, len |-> h.len + 1, cap |-> c],
        heap |-> Append(heap, SliceElems(h) \o <<x>> \o Fill(c - h.len - 1, NoLoc))]

\* The field appended in place of the record.
StructAppendField(f) == f.fv

\* What the struct case appends to parentStructValues.
StructAppendArg(f) == f.sv

\* case reflect.Struct: unmarshal is called on the address of the field with
\* the record appended to the parents. Interface panics on an unexported
\* field.
StructCall ==
  /\ AtDispatch({"struct"})
  /\ IF ~Top.cs THEN Panic /\ UNCHANGED heap
     ELSE LET a == GoAppend(Top.par, StructAppendArg(Top))
              c == UnmarshalCheck("ptr") IN
          /\ heap' = a.heap
          /\ IF c # "" THEN Return(c, rec, tmps, pos, ops)
             ELSE /\ stack' = Append(SetTop([Top EXCEPT !.pc = "await"]),
                                     Frame("unmarshal", "loop", Top.fv, Top.ft, 1, NoLoc,
                                           "", FALSE, EmptyFD, a.h))
                  /\ UNCHANGED <<status, rec, tmps, pos, ops, ret, last>>
  /\ UNCHANGED <<arg, root, buf, methods, capExtra, lastCall>>

\* case reflect.Struct after unmarshal has returned.
StructDone ==
  /\ AtAwait("struct")
  /\ Return(ret, rec, tmps, pos, ops)
  /\ UNCHANGED <<arg, root, buf, heap, methods, capExtra, lastCall>>

Next ==
  \/ Unmarshal
  \/ UnmarshalLoop
  \/ UnmarshalParseError
  \/ UnmarshalFieldDone
  \/ SetValueEnter
  \/ SetOffset
  \/ CallCustomFunc
  \/ SetInt
  \/ SetUint
  \/ SetFloat
  \/ SetBool
  \/ SetString
  \/ SliceLoop
  \/ SliceElemDone
  \/ ArrayLoop
  \/ ArrayElemDone
  \/ StructCall
  \/ StructDone
  \/ Unsupported

Spec == Init /\ [][Next]_vars

\* ------------------------------------------------------------ claims
\* Whether a record of type sid offers a routine callFunc accepts for a
\* field of type ft.
Compatible(sid, ft) ==
  LET m == Method(sid) IN
  m.in = "reader" /\ (m.out = "err" \/ (m.out = "valerr" /\ m.vt = ft))

Delegated(l) ==
  l.f.fn = "set" /\ l.f.tried # <<>>

\* C1: a delegated field asks the record being decoded first and then its
\* ancestors from the nearest to the outermost; it stops at the first record
\* with a compatible routine, which serves the field; it fails with "no
\* method" only when no record of the chain has one; and a routine that only
\* the outermost record declares decodes the field at every depth.
C1_NearestFirst ==
  Delegated(last) =>
    LET tried == last.f.tried
        order == last.order
        n == Len(tried) IN
    /\ n <= Len(order)
    /\ \A j \in 1..n : tried[j] = order[j]
    /\ \A j \in 1..(n - 1) : ~Compatible(tried[j].sid, last.f.ft)
    /\ last.ret \in {"nil", "custom func", "no method"}
    /\ (last.ret # "no method") = Compatible(tried[n].sid, last.f.ft)
    /\ last.ret = "no method" => n = Len(order)
    /\ ( /\ last.f.fd.Offsets = <<>>
         /\ \A j \in 1..(Len(order) - 1) : Method(order[j].sid) = NoMethod
         /\ Compatible(order[Len(order)].sid, last.f.ft)
         /\ CanRead(last.f.pos0, Len(buf), RoutineReads(Method(order[Len(order)].sid))) )
       => last.ret = "nil" /\ n = Len(order)

\* A field three records deep is served by the routine of the outermost
\* record, which alone declares one.
C1_Witness ==
  /\ Delegated(last) /\ last.ret = "nil"
  /\ Len(last.order) = 4 /\ Len(last.f.tried) = 4
  /\ last.f.sid = "T3"
  /\ \A t \in {"T1", "T2", "T3"} : methods[t] = NoMethod

C9_ChainIsEnclosing ==
  \A s \in 1..Len(stack) :
    LET enc == Enclosing(SubSeq(stack, 1, s)) IN
    SliceElems(stack[s].par) = [j \in 1..Len(enc) |-> enc[j].loc]

\* The second element of T1's array is decoded three records deep after an
\* append wrote into the backing array its sibling's chain was built on.
C9_Witness ==
  /\ Len(stack) > 0 /\ Top.fn = "set" /\ Top.sid = "T3" /\ Top.par.len = 3
  /\ capExtra = 1 /\ Len(heap) = 3
  /\ \E s \in 1..Len(stack) :
       stack[s].fn = "set" /\ Kind(stack[s].ft) = "array" /\ stack[s].i = 1

\* C10: a callFunc that reports no match has not called the routine and
\* has left the cursor where it was.
C10_NoMatchNotInvoked ==
  (lastCall.cand # NoLoc /\ ~lastCall.ok) =>
    /\ ~lastCall.invoked
    /\ lastCall.pos1 = lastCall.pos0
    /\ lastCall.ops1 = lastCall.ops0

InitialAt(loc) ==
  IF loc.base = 0 THEN GetAt(PreVal(root, FALSE), loc.path)
  ELSE GetAt(Zero(tmps[loc.base].t), loc.path)

Failed == ret \notin {"", "nil"}

C3_Untouched ==
  /\ \A j \in 1..(Len(ops) - 1) : ops[j].ok \/ ops[j].by = "routine"
  /\ \A s \in 1..Len(stack) :
         stack[s].fn = "unmarshal" =>
           /\ stack[s].i >= 1
           /\ \A j \in (stack[s].i + 1)..NumField(stack[s].sid) :
                Load(stack[s].sv)[j] = InitialAt(stack[s].sv)[j]
           /\ (s < Len(stack) =>
                 /\ stack[s].pc = "await"
                 /\ stack[s + 1].fn = "set"
                 /\ stack[s + 1].fv = Loc(stack[s].sv.base, Append(stack[s].sv.path, stack[s].i)))

C3_Step ==
  /\ Failed =>
       /\ ops' = ops /\ pos' = pos /\ rec' = rec /\ ret' = ret
       /\ stack' = Front(stack)
  /\ \A s \in 1..Len(stack) :
       stack[s].fn = "unmarshal" =>
         /\ \A j \in 1..NumField(stack[s].sid) :
              j # stack[s].i =>
                LoadIn(rec', tmps', stack[s].sv)[j] = Load(stack[s].sv)[j]
         /\ (s <= Len(stack') =>
               /\ stack'[s].sv = stack[s].sv
               /\ stack'[s].i \in {stack[s].i, stack[s].i + 1}
               /\ (stack'[s].i # stack[s].i => s = Len(stack) /\ ret = "nil"))

C4_IgnoredSkipped ==
  /\ \A s \in 1..Len(stack) :
       (stack[s].fn = "set" /\ stack[s].fd.Ignore) => stack[s].pc = "enter"
  /\ (last.f.fn = "set" /\ last.f.fd.Ignore) =>
       /\ last.ret = "nil"
       /\ last.pos1 = last.f.pos0
       /\ last.ops1 = last.f.ops0
       /\ last.val1 = last.f.val0
       /\ last.f.tried = <<>>

\* A nested record with a seek instruction is ignored.
C4_Witness ==
  /\ last.f.fn = "set" /\ last.f.fd.Ignore /\ last.f.fd.Offsets # <<>>
  /\ Kind(last.f.ft) = "struct" /\ status = "ok"

RECURSIVE PosAfter(_, _, _, _)
\* The cursor after the first j of the offsets offs, from p in n bytes; -1
\* once a seek has failed.
PosAfter(p, n, offs, j) ==
  IF j = 0 THEN p
  ELSE LET q == PosAfter(p, n, offs, j - 1) IN
       IF q < 0 THEN -1 ELSE SeekTarget(q, n, offs[j])

\* The j-th operation of a call is the j-th seek of its directive.
SeekLogged(f, j) ==
  LET q == PosAfter(f.pos0, Len(buf), f.fd.Offsets, j - 1)
      t == PosAfter(f.pos0, Len(buf), f.fd.Offsets, j) IN
  /\ f.ops0 + j <= Len(ops)
  /\ ops[f.ops0 + j] = Op("Seek", "engine", q, t, t >= 0)

\* C5: the operations of a field that is not ignored begin with its seeks,
\* in their order, each from where the one before left the cursor; a
\* failing seek is the last operation of the decode; after (10, start) a
\* scalar is read at byte 10.
C5_SeeksFirstInOrder ==
  /\ \A s \in 1..Len(stack) :
       LET f == stack[s] IN
       (f.fn = "set" /\ f.pc # "enter") =>
         IF f.pc = "seek"
         THEN /\ Len(ops) = f.ops0 + f.k - 1
              /\ \A j \in 1..(f.k - 1) : SeekLogged(f, j) /\ ops[f.ops0 + j].ok
         ELSE \A j \in 1..Len(f.fd.Offsets) : SeekLogged(f, j) /\ ops[f.ops0 + j].ok
  /\ (last.f.fn = "set" /\ ~last.f.fd.Ignore) =>
       LET f == last.f
           n == Len(f.fd.Offsets) IN
       /\ (last.ret = "seek" /\ last.own) =>
            /\ ~ops[last.ops1].ok /\ ops[last.ops1].op = "Seek"
            /\ last.ops1 - f.ops0 \in 1..n
            /\ \A j \in 1..(last.ops1 - f.ops0) : SeekLogged(f, j)
            /\ last.val1 = f.val0
            /\ Len(ops) = last.ops1
       /\ (last.ret # "seek" \/ ~last.own) =>
            /\ last.ops1 >= f.ops0 + n
            /\ \A j \in 1..n : SeekLogged(f, j) /\ ops[f.ops0 + j].ok
       /\ ( /\ f.fd.Offsets = <<Off(10, SeekStart)>> /\ f.fd.FuncName = ""
            /\ Kind(f.ft) \in ScalarKinds /\ last.ret \in {"nil", "EOF"} ) =>
            /\ last.ops1 = f.ops0 + 2
            /\ ops[last.ops1].at = 10 /\ ops[last.ops1].op # "Seek"
            /\ (last.ret = "nil" /\ ~f.fd.hasLen /\ Kind(f.ft) \in UintKinds) =>
                 last.val1 = BytesAt(buf, 10, Width(Kind(f.ft)))

\* A uint16 entered at byte 1 with the instruction (10, start) holds bytes
\* 10 and 11.
C5_Witness ==
  /\ last.f.fn = "set" /\ last.f.fd.Offsets = <<Off(10, SeekStart)>>
  /\ last.f.pos0 = 1 /\ last.f.ft = "uint16" /\ last.ret = "nil"
  /\ last.val1 = <<139, 12>> /\ last.pos1 = 12

\* The L elements of width w of stream b from position p.
ElemsOfStream(b, p, L, w) == [i \in 1..L |-> BytesAt(b, p + (i - 1) * w, w)]

\* A slice field of scalars, decoded by its length alone, empty before.
SliceCase(l) ==
  /\ l.f.fn = "set" /\ Kind(l.f.ft) = "slice"
  /\ TypeDesc(l.f.ft).elem \in ScalarKinds
  /\ ~l.f.fd.Ignore /\ l.f.fd.FuncName = "" /\ l.f.fd.Offsets = <<>>
  /\ l.f.fd.hasLen /\ l.f.fd.Length >= 0
  /\ l.f.fd.elem \notin {"seek", "func"}
  /\ l.f.val0 = <<>>
  /\ CanRead(l.f.pos0, Len(buf), l.f.fd.Length * Width(TypeDesc(l.f.ft).elem))

SliceResult(l) ==
  LET w == Width(TypeDesc(l.f.ft).elem) IN
  /\ l.ret = "nil"
  /\ l.val1 = ElemsOfStream(buf, l.f.pos0, l.f.fd.Length, w)
  /\ l.pos1 = l.f.pos0 + l.f.fd.Length * w

\* C6 as stated: a slice of L scalars without element seek or delegation
\* holds the next L elements of the stream and moves the cursor L widths.
C6_SliceAsStated == SliceCase(last) => SliceResult(last)

\* C6: the same for an exported field whose elements have no ignore and no
\* length directive either.
C6_SliceOfLength ==
  (SliceCase(last) /\ last.f.cs /\ last.f.fd.elem \in {"nil", "plain"}) =>
    SliceResult(last)

\* Bytes 01 02 03 with length 3 give [1, 2, 3].
C6_Witness ==
  /\ SliceCase(last) /\ last.f.cs /\ last.f.fd.elem = "nil"
  /\ last.f.fd.Length = 3 /\ last.f.pos0 = 0 /\ Len(buf) = 3
  /\ last.val1 = <<<<1>>, <<2>>, <<3>>>> /\ last.pos1 = 3

\* An integer field that reached its switch with a length other than
\* 1, 2, 4, 8.
OddLength(l, kinds) ==
  /\ l.f.fn = "set" /\ Kind(l.f.ft) \in kinds
  /\ ~l.f.fd.Ignore /\ l.f.fd.FuncName = "" /\ l.ret # "seek"
  /\ l.own
  /\ l.f.fd.hasLen /\ l.f.fd.Length \notin {1, 2, 4, 8}

NothingRead(l) ==
  /\ l.ret = "need len"
  /\ l.ops1 = l.f.ops0 + Len(l.f.fd.Offsets)
  /\ l.val1 = l.f.val0

\* C7 as stated: any integer field with such a length fails and reads
\* nothing.
C7_AnyWidth == OddLength(last, IntKinds \cup UintKinds) => NothingRead(last)

\* C7: an int or uint field with such a length fails and reads nothing; a
\* field of static width is read at that width whatever the length.
C7_GenericWidth ==
  /\ OddLength(last, {"int", "uint"}) => NothingRead(last)
  /\ OddLength(last, (IntKinds \cup UintKinds) \ {"int", "uint"}) =>
       /\ last.ret \in {"nil", "EOF"}
       /\ last.ops1 = last.f.ops0 + Len(last.f.fd.Offsets) + 1
       /\ ops[last.ops1].n = Width(Kind(last.f.ft))

\* An int field with length 3.
C7_Witness ==
  /\ OddLength(last, {"int"}) /\ last.f.fd.Length = 3 /\ last.ret = "need len"

\* C8: an array field decodes N elements without a length and L elements
\* with one, and never ends in an index fault.
C8_ArrayInRange ==
  /\ ~(status = "panic" /\ Len(stack) > 0 /\ Top.fn = "set" /\ Kind(Top.ft) = "array"
       /\ Top.pc = "await")
  /\ ( /\ last.f.fn = "set" /\ Kind(last.f.ft) = "array"
       /\ ~last.f.fd.Ignore /\ last.f.fd.FuncName = "" /\ last.ret = "nil"
       /\ (last.f.fd.hasLen => last.f.fd.Length >= 0) ) =>
       last.f.i = IF last.f.fd.hasLen THEN last.f.fd.Length ELSE TypeDesc(last.f.ft).n

====
